---- MODULE Spec2Model ----
(***************************************************************************)
(* The order book of internal/engine/orderbook.go: two price-keyed trees   *)
(* of price levels, the order index, the sequence counter and the          *)
(* readers-writer mutex that guards them.                                  *)
(*                                                                         *)
(* Go pointers are modelled explicitly.  `mem` is the memory holding the   *)
(* Order objects: a function from references (the *Order values) to the    *)
(* fields of the object.  Levels and the index hold references, so that    *)
(* two entries may alias one object and a write through one reference is   *)
(* seen through all of them.  Prices and quantities are float64 in the     *)
(* source; the model draws them from small integer ranges, on which        *)
(* float64 arithmetic and comparison are exact.                            *)
(***************************************************************************)
EXTENDS Integers, Sequences, FiniteSets, TLC

----------------------------------------------------------------------------
(* Bounds of the model *)

\* prices are drawn from 1..MaxPrice
MaxPrice == 2
\* AddOrder is called at most MaxSeq times in a behaviour
MaxSeq == 2

\* the references of the Order objects: every AddOrder brings at most one
Refs == 1..MaxSeq
Prices == 1..MaxPrice
\* the quantities an order is constructed with
Qtys == {1, 2}
IDs == {"a", "b"}

----------------------------------------------------------------------------
(* Types of orderbook.go *)

Buy == "BUY"
Sell == "SELL"
OrderSide == {Buy, Sell}

Limit == "LIMIT"
Market == "MARKET"
OrderType == {Limit, Market}

\* The Order struct.  UserID, Symbol, Status, CreatedAt and UpdatedAt are
\* never read or written by the order book and are left out.
Order(id, side, type, price, qty, filled, seq) ==
    [ID |-> id, Side |-> side, Type |-> type, Price |-> price,
     Quantity |-> qty, FilledQty |-> filled, SequenceNum |-> seq]

\* The orders a caller constructs for the book: LIMIT orders with a positive
\* price and a residual quantity, possibly partly filled by the matching that
\* precedes the insertion.  SequenceNum has Go's zero value.
NewOrders ==
    {o \in {Order(id, side, Limit, price, qty, filled, 0) :
                id \in IDs, side \in OrderSide,
                price \in Prices, qty \in Qtys, filled \in {0} \cup Qtys} :
        o.FilledQty < o.Quantity}

\* The PriceLevel struct; Orders is a sequence of references.
PriceLevel(price, orders, volume) ==
    [Price |-> price, Orders |-> orders, Volume |-> volume]

----------------------------------------------------------------------------
(* The red-black tree, as the ordered map it implements: a function from   *)
(* the keys present to their values, and the comparator it was built with. *)

EmptyTree == [k \in {} |-> 0]

TreeGetFound(tree, key) == key \in DOMAIN tree

TreePut(tree, key, value) ==
    [k \in (DOMAIN tree) \cup {key} |-> IF k = key THEN value ELSE tree[k]]

TreeRemove(tree, key) ==
    [k \in (DOMAIN tree) \ {key} |-> tree[k]]

TreeSize(tree) == Cardinality(DOMAIN tree)

\* BuyTree built with the comparator of SellTree
BuyComparator_ascending(a, b) == IF a < b THEN -1 ELSE IF a > b THEN 1 ELSE 0

\* comparator of BuyTree: higher price sorts first
BuyComparator(a, b) == IF a > b THEN -1 ELSE IF a < b THEN 1 ELSE 0

\* comparator of SellTree: lower price sorts first
SellComparator(a, b) == IF a < b THEN -1 ELSE IF a > b THEN 1 ELSE 0

Comparator(side, a, b) ==
    IF side = Buy THEN BuyComparator(a, b) ELSE SellComparator(a, b)

\* Left(): the key that sorts first under the tree's comparator
TreeLeft(tree, side) ==
    CHOOSE k \in DOMAIN tree :
        \A j \in DOMAIN tree : Comparator(side, k, j) <= 0

----------------------------------------------------------------------------
(* State *)

VARIABLES
    ob,         \* the OrderBook: BuyTree, SellTree, OrderMap, sequence
    mem,        \* the Order objects, by reference
    last,       \* the call that was completed last, with its result
    mu,         \* ob.mu, the sync.RWMutex
    pc,         \* where every goroutine stands in its call
    call,       \* the arguments and local variables of every goroutine's call
    committed,  \* the book and its orders as the last completed write left them
    issued,     \* the sequence numbers given to orders, in the order given
    arrays,     \* the backing arrays of the levels' Orders slices, by reference
    slices,     \* the backing array every level's Orders slice points to
    caller      \* what GetDepth and GetOrder have returned to their caller

vars ==
    <<ob, mem, last, mu, pc, call, committed, issued, arrays, slices, caller>>

\* the variables of the slices and of what the caller holds; only the
\* specification of the shared memory changes them
sliceVars == <<arrays, slices, caller>>

\* the caller before any call has returned: no GetDepth result, no order
NoCaller ==
    [depth |-> <<>>, returned |-> <<>>, order |-> 0, copy |-> <<>>]

\* the variables of the goroutines, which the sequential specification leaves alone
concVars == <<mu, pc, call, committed, issued>>

NewOrderBook ==
    [BuyTree |-> EmptyTree, SellTree |-> EmptyTree,
     OrderMap |-> [k \in {} |-> 0], sequence |-> 0]

\* getTree with the sides mixed up
getTree_swapped(book, side) ==
    IF side = Sell THEN book.BuyTree ELSE book.SellTree

getTree(book, side) == IF side = Buy THEN book.BuyTree ELSE book.SellTree

\* the book with the tree of `side` replaced (the trees are held by pointer)
withTree(book, side, tree) ==
    IF side = Buy THEN [book EXCEPT !.BuyTree = tree]
    ELSE [book EXCEPT !.SellTree = tree]

----------------------------------------------------------------------------
(* The order index: a Go map from order ID to *Order *)

MapPut(map, key, value) ==
    [k \in (DOMAIN map) \cup {key} |-> IF k = key THEN value ELSE map[k]]

MapDelete(map, key) ==
    [k \in (DOMAIN map) \ {key} |-> map[k]]

\* the nil pointer
Nil == 0

----------------------------------------------------------------------------
(* AddOrder, statement by statement.  `order` is the *Order argument and   *)
(* m the memory in which it lives.                                         *)

\* ob.sequence++
AddOrder_sequence(book) ==
    [book EXCEPT !.sequence = @ + 1]

\* order.SequenceNum = ob.sequence : a write to the caller's object
AddOrder_stamp(book, m, order) ==
    [m EXCEPT ![order].SequenceNum = book.sequence]

\* ob.OrderMap[order.ID] = order
AddOrder_index(book, m, order) ==
    [book EXCEPT !.OrderMap = MapPut(@, m[order].ID, order)]

\* get or create the level at order.Price in the tree of order.Side, append
\* the order to it and add order.Quantity to its Volume
AddOrder_level(book, m, order) ==
    LET side == m[order].Side
        price == m[order].Price
        tree == getTree(book, side)
        level == IF TreeGetFound(tree, price) THEN tree[price]
                 ELSE PriceLevel(price, <<>>, 0)
        grown == [level EXCEPT !.Orders = Append(@, order),
                               !.Volume = @ + m[order].Quantity]
    IN  withTree(book, side, TreePut(tree, price, grown))

\* the memory after the whole of AddOrder
AddOrder_mem(book, m, order) ==
    AddOrder_stamp(AddOrder_sequence(book), m, order)

\* the book after the whole of AddOrder
AddOrder_book(book, m, order) ==
    LET m1 == AddOrder_mem(book, m, order)
    IN  AddOrder_level(
            AddOrder_index(AddOrder_sequence(book), m1, order), m1, order)

----------------------------------------------------------------------------
(* RemoveOrder, statement by statement *)

\* order, exists := ob.OrderMap[orderID]
RemoveOrder_exists(book, orderID) == orderID \in DOMAIN book.OrderMap

RemoveOrder_lookup(book, orderID) ==
    IF RemoveOrder_exists(book, orderID) THEN book.OrderMap[orderID] ELSE Nil

\* RemoveOrder without the delete from the index
RemoveOrder_index_kept(book, orderID) == book

\* delete(ob.OrderMap, orderID)
RemoveOrder_index(book, orderID) ==
    [book EXCEPT !.OrderMap = MapDelete(@, orderID)]

\* s without its i-th element: append(s[:i], s[i+1:]...)
RemoveAt(s, i) ==
    [j \in 1..(Len(s) - 1) |-> IF j < i THEN s[j] ELSE s[j + 1]]

\* the position of the first order of the level whose ID is orderID, 0 if none
FirstWithID(m, orders, orderID) ==
    LET hits == {i \in 1..Len(orders) : m[orders[i]].ID = orderID}
    IN  IF hits = {} THEN 0
        ELSE CHOOSE i \in hits : \A j \in hits : i <= j

\* RemoveOrder without the removal of the empty level
RemoveOrder_prune_never(tree, price, level) == TreePut(tree, price, level)

\* if len(level.Orders) == 0 { tree.Remove(order.Price) }; a level that stays
\* is the object the tree already points to
RemoveOrder_prune(tree, price, level) ==
    IF Len(level.Orders) = 0 THEN TreeRemove(tree, price)
    ELSE TreePut(tree, price, level)

\* find the level of order.Price in the tree of order.Side; take the first
\* order with this ID out of it and subtract the residual of `order` from its
\* Volume; remove the level if it has no order left
RemoveOrder_level(book, m, order, orderID) ==
    LET side == m[order].Side
        price == m[order].Price
        tree == getTree(book, side)
    IN  IF ~TreeGetFound(tree, price) THEN book
        ELSE
          LET level == tree[price]
              remainingQty == m[order].Quantity - m[order].FilledQty
              i == FirstWithID(m, level.Orders, orderID)
              shrunk == IF i = 0 THEN level
                        ELSE [level EXCEPT !.Orders = RemoveAt(@, i),
                                           !.Volume = @ - remainingQty]
          IN  withTree(book, side, RemoveOrder_prune(tree, price, shrunk))

\* RemoveOrder that takes a sequence number for every call
RemoveOrder_book_counted(book, m, orderID) ==
    IF ~RemoveOrder_exists(book, orderID)
    THEN [book EXCEPT !.sequence = @ + 1]
    ELSE RemoveOrder_level(
            RemoveOrder_index([book EXCEPT !.sequence = @ + 1], orderID), m,
            RemoveOrder_lookup(book, orderID), orderID)

\* the book after the whole of RemoveOrder
RemoveOrder_book(book, m, orderID) ==
    IF ~RemoveOrder_exists(book, orderID) THEN book
    ELSE RemoveOrder_level(RemoveOrder_index(book, orderID), m,
                           RemoveOrder_lookup(book, orderID), orderID)

----------------------------------------------------------------------------
(* Reading the book *)

\* the references held by the levels of a tree
TreeRefs(tree) ==
    UNION {{tree[p].Orders[i] : i \in 1..Len(tree[p].Orders)} : p \in DOMAIN tree}

\* the references held by the index
MapRefs(book) == {book.OrderMap[k] : k \in DOMAIN book.OrderMap}

\* the Order objects the book still points to; the others are garbage
Reachable(book) ==
    TreeRefs(book.BuyTree) \cup TreeRefs(book.SellTree) \cup MapRefs(book)

Collect(book, m) == [r \in (DOMAIN m) \cap Reachable(book) |-> m[r]]

\* the reference a newly constructed Order gets
NewRef(m) == CHOOSE r \in Refs \ DOMAIN m : \A q \in Refs \ DOMAIN m : r <= q

----------------------------------------------------------------------------
(* The sequential specification: every call runs to completion *)

\* the record of a completed call: the operation, its orderID argument or the
\* ID of its order argument, the *Order passed in or returned (Nil for none),
\* the fields of that order before the call, and the error it reported
Call(op, orderID, order, fields, err) ==
    [op |-> op, orderID |-> orderID, order |-> order, fields |-> fields,
     err |-> err]

NoOrder == Order("", Buy, Limit, 0, 0, 0, 0)

NoCall == Call("none", "", Nil, NoOrder, "none")

\* the goroutines
Procs == {"g1", "g2"}

\* A goroutine that is in no call.  For the properties, seen is explained
\* at CallGetSpread; resting is the order the index had for the ID when
\* RemoveOrder was called, and rival tells whether another RemoveOrder for
\* the same ID was then waiting for the lock and has not returned since.
Idle == [op |-> "none", orderID |-> "", order |-> Nil, levels |-> 0,
         seen |-> {}, resting |-> Nil, rival |-> FALSE, obs |-> <<>>]

\* the unlocked RWMutex: no writer holds it, no reader holds it
Unlocked == [writer |-> FALSE, readers |-> 0]

Init ==
    /\ ob = NewOrderBook
    /\ mem = [r \in {} |-> 0]
    /\ last = NoCall
    /\ mu = Unlocked
    /\ pc = [p \in Procs |-> "idle"]
    /\ call = [p \in Procs |-> Idle]
    /\ committed = [ob |-> NewOrderBook, mem |-> [r \in {} |-> 0]]
    /\ issued = <<>>
    /\ arrays = [a \in {} |-> <<>>]
    /\ slices = [k \in {} |-> 0]
    /\ caller = NoCaller

\* AddOrder(order), called with memory m
AddOrder(order, m) ==
    /\ ob.sequence < MaxSeq
    /\ ob' = AddOrder_book(ob, m, order)
    /\ mem' = AddOrder_mem(ob, m, order)
    /\ last' = Call("AddOrder", m[order].ID, order, m[order], "none")
    /\ UNCHANGED <<concVars, sliceVars>>

\* the caller constructs an Order and adds it
AddNewOrder ==
    /\ Refs \ DOMAIN mem # {}
    /\ \E o \in NewOrders :
          LET r == NewRef(mem)
          IN  AddOrder(r, [x \in (DOMAIN mem) \cup {r} |->
                              IF x = r THEN o ELSE mem[x]])

\* the caller adds an Order object that the book already holds
AddHeldOrder ==
    \E r \in DOMAIN mem : AddOrder(r, mem)

RemoveOrder(orderID) ==
    /\ ob' = RemoveOrder_book(ob, mem, orderID)
    /\ mem' = Collect(ob', mem)
    /\ last' = LET order == RemoveOrder_lookup(ob, orderID)
                IN  Call("RemoveOrder", orderID, order,
                         IF order = Nil THEN NoOrder ELSE mem[order], "none")
    /\ UNCHANGED <<concVars, sliceVars>>

\* One fill of the matching loop against the resting book (the matcher's
\* steps 3, 4, 6 and 7): the maker is the head of the best level of a side,
\* fill_qty is at most its residual and is added to its FilledQty; a maker
\* that is filled is taken out with RemoveOrder, one that is not stays the
\* head of its level; fill_qty is subtracted from the level's volume.
Fill(side, qty) ==
    LET tree == getTree(ob, side) IN
    /\ TreeSize(tree) > 0
    /\ LET price == TreeLeft(tree, side)
           maker == Head(tree[price].Orders)
           m1 == [mem EXCEPT ![maker].FilledQty = @ + qty]
           book1 == IF m1[maker].FilledQty = m1[maker].Quantity
                    THEN RemoveOrder_book(ob, m1, m1[maker].ID)
                    ELSE ob
           tree1 == getTree(book1, side)
           book2 == IF TreeGetFound(tree1, price)
                    THEN withTree(book1, side,
                            [tree1 EXCEPT ![price].Volume = @ - qty])
                    ELSE book1
       IN  /\ qty <= mem[maker].Quantity - mem[maker].FilledQty
           /\ ob' = book2
           /\ mem' = Collect(book2, m1)
           /\ last' = Call("Fill", mem[maker].ID, maker, mem[maker], "none")
           /\ UNCHANGED <<concVars, sliceVars>>

Next ==
    \/ AddNewOrder
    \/ AddHeldOrder
    \/ \E orderID \in IDs : RemoveOrder(orderID)
    \/ \E side \in OrderSide, qty \in Qtys : Fill(side, qty)

Spec == Init /\ [][Next]_vars

----------------------------------------------------------------------------
(* The book called with every Order value a caller can construct *)

\* Every Order value of the struct within the bounds: either type, a price
\* that may be 0, FilledQty up to Quantity.
AnyOrders ==
    {o \in {Order(id, side, type, price, qty, filled, 0) :
                id \in IDs, side \in OrderSide, type \in OrderType,
                price \in {0} \cup Prices, qty \in Qtys,
                filled \in {0} \cup Qtys} :
        o.FilledQty <= o.Quantity}

\* the caller constructs any Order and adds it
AddAnyOrder ==
    /\ Refs \ DOMAIN mem # {}
    /\ \E o \in AnyOrders :
          LET r == NewRef(mem)
          IN  AddOrder(r, [x \in (DOMAIN mem) \cup {r} |->
                              IF x = r THEN o ELSE mem[x]])

WideNext ==
    \/ AddAnyOrder
    \/ AddHeldOrder
    \/ \E orderID \in IDs : RemoveOrder(orderID)

WideSpec == Init /\ [][WideNext]_vars

----------------------------------------------------------------------------
(* Recovery: the book is rebuilt from the persisted open orders, then used *)

\* the sequence numbers orders were stored with; they need not start at 1
\* nor be consecutive, since orders that are no longer open are not loaded
StoredSeqs == 1..(MaxSeq + 2)

\* the rows of the recovery query: open LIMIT orders with the sequence
\* number they were given before the restart
PersistedOrders ==
    {[o EXCEPT !.SequenceNum = n] : o \in NewOrders, n \in StoredSeqs}

\* One row of the recovery query is put into the book.  The rows come in
\* ascending sequence number and with distinct IDs, before any live order;
\* AddOrder is the only operation of the book that inserts an order.
LoadOrder(o) ==
    /\ last.op \in {"none", "LoadOrder"}
    /\ o.SequenceNum > last.fields.SequenceNum
    /\ o.ID \notin DOMAIN ob.OrderMap
    /\ ob.sequence < MaxSeq
    /\ Refs \ DOMAIN mem # {}
    /\ LET r == NewRef(mem)
           m == [x \in (DOMAIN mem) \cup {r} |-> IF x = r THEN o ELSE mem[x]]
       IN  /\ ob' = AddOrder_book(ob, m, r)
           /\ mem' = AddOrder_mem(ob, m, r)
           /\ last' = Call("LoadOrder", o.ID, r, o, "none")
    /\ UNCHANGED <<concVars, sliceVars>>

RecoveryNext ==
    \/ \E o \in PersistedOrders : LoadOrder(o)
    \/ AddNewOrder
    \/ \E orderID \in IDs : RemoveOrder(orderID)

RecoverySpec == Init /\ [][RecoveryNext]_vars

----------------------------------------------------------------------------
(* The read operations, as functions of the book *)

\* GetBestBid: <<price, found>>
GetBestBid(book) ==
    IF TreeSize(book.BuyTree) = 0 THEN <<0, FALSE>>
    ELSE <<TreeLeft(book.BuyTree, Buy), TRUE>>

\* GetBestAsk: <<price, found>>
GetBestAsk(book) ==
    IF TreeSize(book.SellTree) = 0 THEN <<0, FALSE>>
    ELSE <<TreeLeft(book.SellTree, Sell), TRUE>>

\* what GetSpread returns for the results of its two calls:
\* 0 if a side has no level, ask - bid otherwise
GetSpread_result(bid, ask) ==
    IF ~bid[2] \/ ~ask[2] THEN 0 ELSE ask[1] - bid[1]

\* GetSpread on a book that no writer changes between its two calls
GetSpread(book) == GetSpread_result(GetBestBid(book), GetBestAsk(book))

\* GetOrder: <<order, exists>>
GetOrder(book, orderID) ==
    IF orderID \in DOMAIN book.OrderMap
    THEN <<book.OrderMap[orderID], TRUE>>
    ELSE <<Nil, FALSE>>

\* Size
Size(book) == Cardinality(DOMAIN book.OrderMap)

\* the keys of a tree in the order its iterator visits them
RECURSIVE TreeKeys(_, _)
TreeKeys(tree, side) ==
    IF DOMAIN tree = {} THEN <<>>
    ELSE LET first == TreeLeft(tree, side)
         IN  <<first>> \o TreeKeys(TreeRemove(tree, first), side)

\* GetDepth with a loop that stops one level late
GetDepthSide_late(tree, side, levels) ==
    LET keys == TreeKeys(tree, side)
        count == IF Len(keys) < levels + 1 THEN Len(keys) ELSE levels + 1
    IN  [i \in 1..count |-> tree[keys[i]]]

\* one side of GetDepth: copies of the first `levels` levels of the tree
GetDepthSide(tree, side, levels) ==
    LET keys == TreeKeys(tree, side)
        count == IF Len(keys) < levels THEN Len(keys) ELSE levels
    IN  [i \in 1..count |-> tree[keys[i]]]

\* GetDepth: <<bids, asks>>
GetDepth(book, levels) ==
    <<GetDepthSide(book.BuyTree, Buy, levels),
      GetDepthSide(book.SellTree, Sell, levels)>>

----------------------------------------------------------------------------
(* The concurrent specification: goroutines call the methods of one book,  *)
(* every method takes ob.mu as the source does, and the statements of a    *)
(* method are separate steps.                                              *)

\* a Lock that excludes nobody
CanLock_always(m) == TRUE

\* mu.Lock() first takes the mutex of the writers: it passes when no other
\* writer holds or awaits the lock; from then on new readers are held back
CanLock(m) == ~m.writer

\* mu.Lock() then waits for the readers that hold the lock to leave
Drained(m) == m.readers = 0

\* an RLock that does not wait for the writer
CanRLock_always(m) == TRUE

\* mu.RLock() returns when no writer holds or awaits the mutex
CanRLock(m) == ~m.writer

\* the orders the goroutines construct: unfilled buy orders at the lowest
\* price and unfilled sell orders at the highest
ConcOrders ==
    {o \in NewOrders :
        /\ o.Quantity = 1 /\ o.FilledQty = 0
        /\ o.Price = IF o.Side = Buy THEN 1 ELSE MaxPrice}

\* what a read operation returns on a book
ReadResult(c, book) ==
    CASE c.op = "GetBestBid" -> GetBestBid(book)
      [] c.op = "GetBestAsk" -> GetBestAsk(book)
      [] c.op = "GetDepth" -> GetDepth(book, c.levels)
      [] c.op = "GetOrder" -> GetOrder(book, c.orderID)
      [] c.op = "Size" -> <<Size(book)>>

\* the AddOrder calls that have not yet taken their sequence number
PendingAdds ==
    Cardinality({p \in Procs : /\ call[p].op = "AddOrder"
                               /\ pc[p] \in {"Lock", "Lock_wait",
                                             "add_sequence"}})

\* the Order objects some goroutine other than p holds in its call
HeldByOthers(p) == {call[q].order : q \in Procs \ {p}}

\* the objects that remain when goroutine p has returned
Remaining(p, book, m) ==
    [r \in (DOMAIN m) \cap (Reachable(book) \cup HeldByOthers(p)) |-> m[r]]

\* a goroutine constructs an Order and calls AddOrder
CallAddNewOrder(p) ==
    /\ pc[p] = "idle"
    /\ ob.sequence + PendingAdds < MaxSeq
    /\ Refs \ DOMAIN mem # {}
    /\ \E o \in ConcOrders :
          LET r == NewRef(mem)
          IN  /\ mem' = [x \in (DOMAIN mem) \cup {r} |->
                            IF x = r THEN o ELSE mem[x]]
              /\ call' = [call EXCEPT ![p] =
                            [Idle EXCEPT !.op = "AddOrder", !.order = r,
                                         !.orderID = o.ID]]
    /\ pc' = [pc EXCEPT ![p] = "Lock"]
    /\ UNCHANGED <<ob, last, mu, committed, issued, sliceVars>>

\* a goroutine calls AddOrder with an Order object that is already around
CallAddHeldOrder(p) ==
    /\ pc[p] = "idle"
    /\ ob.sequence + PendingAdds < MaxSeq
    /\ \E r \in DOMAIN mem :
          call' = [call EXCEPT ![p] =
                     [Idle EXCEPT !.op = "AddOrder", !.order = r,
                                  !.orderID = mem[r].ID]]
    /\ pc' = [pc EXCEPT ![p] = "Lock"]
    /\ UNCHANGED <<ob, mem, last, mu, committed, issued, sliceVars>>

CallRemoveOrder(p) ==
    /\ pc[p] = "idle"
    /\ \E orderID \in IDs :
          call' = [call EXCEPT ![p] =
                     [Idle EXCEPT !.op = "RemoveOrder", !.orderID = orderID,
                                  !.resting = RemoveOrder_lookup(committed.ob,
                                                                 orderID),
                                  !.rival =
                                     \E q \in Procs \ {p} :
                                        /\ call[q].op = "RemoveOrder"
                                        /\ call[q].orderID = orderID
                                        /\ pc[q] \in {"Lock", "Lock_wait"}]]
    /\ pc' = [pc EXCEPT ![p] = "Lock"]
    /\ UNCHANGED <<ob, mem, last, mu, committed, issued, sliceVars>>

CallRead(p) ==
    /\ pc[p] = "idle"
    /\ \/ \E op \in {"GetBestBid", "GetBestAsk", "Size"} :
             call' = [call EXCEPT ![p] = [Idle EXCEPT !.op = op]]
       \/ \E levels \in {1, 2} :
             call' = [call EXCEPT ![p] =
                        [Idle EXCEPT !.op = "GetDepth", !.levels = levels]]
       \/ \E orderID \in IDs :
             call' = [call EXCEPT ![p] =
                        [Idle EXCEPT !.op = "GetOrder", !.orderID = orderID]]
    /\ pc' = [pc EXCEPT ![p] = "RLock"]
    /\ UNCHANGED <<ob, mem, last, mu, committed, issued, sliceVars>>

\* ob.mu.Lock(), first part: the writer takes the mutex of the writers
Lock(p) ==
    /\ pc[p] = "Lock"
    /\ CanLock(mu)
    /\ mu' = [mu EXCEPT !.writer = TRUE]
    /\ pc' = [pc EXCEPT ![p] = "Lock_wait"]
    /\ UNCHANGED <<ob, mem, last, call, committed, issued, sliceVars>>

\* ob.mu.Lock(), second part: it returns when the readers have left
LockWait(p) ==
    /\ pc[p] = "Lock_wait"
    /\ Drained(mu)
    /\ pc' = [pc EXCEPT ![p] = IF call[p].op = "AddOrder"
                               THEN "add_sequence" ELSE "rem_lookup"]
    /\ UNCHANGED <<ob, mem, last, mu, call, committed, issued, sliceVars>>

\* ob.sequence++
AddSequence(p) ==
    /\ pc[p] = "add_sequence"
    /\ ob' = AddOrder_sequence(ob)
    /\ pc' = [pc EXCEPT ![p] = "add_stamp"]
    /\ UNCHANGED <<mem, last, mu, call, committed, issued, sliceVars>>

\* order.SequenceNum = ob.sequence
AddStamp(p) ==
    /\ pc[p] = "add_stamp"
    /\ mem' = AddOrder_stamp(ob, mem, call[p].order)
    /\ issued' = Append(issued, ob.sequence)
    /\ pc' = [pc EXCEPT ![p] = "add_index"]
    /\ UNCHANGED <<ob, last, mu, call, committed, sliceVars>>

\* ob.OrderMap[order.ID] = order
AddIndex(p) ==
    /\ pc[p] = "add_index"
    /\ ob' = AddOrder_index(ob, mem, call[p].order)
    /\ pc' = [pc EXCEPT ![p] = "add_level"]
    /\ UNCHANGED <<mem, last, mu, call, committed, issued, sliceVars>>

\* the level is found or created and the order appended
AddLevel(p) ==
    /\ pc[p] = "add_level"
    /\ ob' = AddOrder_level(ob, mem, call[p].order)
    /\ pc' = [pc EXCEPT ![p] = "Unlock"]
    /\ UNCHANGED <<mem, last, mu, call, committed, issued, sliceVars>>

\* a RemoveOrder that leaves the ID in the index
RemoveLookup_kept(p) ==
    /\ pc[p] = "rem_lookup"
    /\ call' = [call EXCEPT ![p].order =
                   RemoveOrder_lookup(ob, call[p].orderID)]
    /\ pc' = [pc EXCEPT ![p] = IF RemoveOrder_exists(ob, call[p].orderID)
                               THEN "rem_level" ELSE "Unlock"]
    /\ UNCHANGED <<ob, mem, last, mu, committed, issued, sliceVars>>

\* the lookup in the index, the early return and the delete from the index
RemoveLookup(p) ==
    /\ pc[p] = "rem_lookup"
    /\ call' = [call EXCEPT ![p].order =
                   RemoveOrder_lookup(ob, call[p].orderID)]
    /\ IF RemoveOrder_exists(ob, call[p].orderID)
       THEN /\ ob' = RemoveOrder_index(ob, call[p].orderID)
            /\ pc' = [pc EXCEPT ![p] = "rem_level"]
       ELSE /\ ob' = ob
            /\ pc' = [pc EXCEPT ![p] = "Unlock"]
    /\ UNCHANGED <<mem, last, mu, committed, issued, sliceVars>>

\* the order is taken out of its level
RemoveLevel(p) ==
    /\ pc[p] = "rem_level"
    /\ ob' = RemoveOrder_level(ob, mem, call[p].order, call[p].orderID)
    /\ pc' = [pc EXCEPT ![p] = "Unlock"]
    /\ UNCHANGED <<mem, last, mu, call, committed, issued, sliceVars>>

\* the deferred ob.mu.Unlock()
Unlock(p) ==
    /\ pc[p] = "Unlock"
    /\ mu' = [mu EXCEPT !.writer = FALSE]
    /\ committed' = [ob |-> ob, mem |-> Collect(ob, mem)]
    /\ pc' = [pc EXCEPT ![p] = "Return"]
    /\ call' = [q \in Procs |->
                  IF call[q].op = "GetSpread"
                  THEN [call[q] EXCEPT !.seen = @ \cup {GetSpread(ob)}]
                  ELSE call[q]]
    /\ UNCHANGED <<ob, mem, last, issued, sliceVars>>

\* AddOrder returns; RemoveOrder returns call[p].order
Return(p) ==
    /\ pc[p] = "Return"
    /\ mem' = Remaining(p, ob, mem)
    /\ pc' = [pc EXCEPT ![p] = "idle"]
    /\ call' = [q \in Procs |->
                  IF q = p THEN Idle ELSE [call[q] EXCEPT !.rival = FALSE]]
    /\ UNCHANGED <<ob, last, mu, committed, issued, sliceVars>>

\* ob.mu.RLock()
RLock(p) ==
    /\ pc[p] = "RLock"
    /\ CanRLock(mu)
    /\ mu' = [mu EXCEPT !.readers = @ + 1]
    /\ pc' = [pc EXCEPT ![p] = "read"]
    /\ UNCHANGED <<ob, mem, last, call, committed, issued, sliceVars>>

\* the body of a read operation
Read(p) ==
    /\ pc[p] = "read"
    /\ call' = [call EXCEPT ![p].obs = ReadResult(call[p], ob)]
    /\ pc' = [pc EXCEPT ![p] = "RUnlock"]
    /\ UNCHANGED <<ob, mem, last, mu, committed, issued, sliceVars>>

\* the deferred ob.mu.RUnlock() and the return
RUnlock(p) ==
    /\ pc[p] = "RUnlock"
    /\ mu' = [mu EXCEPT !.readers = @ - 1]
    /\ pc' = [pc EXCEPT ![p] = "idle"]
    /\ call' = [call EXCEPT ![p] = Idle]
    /\ UNCHANGED <<ob, mem, last, committed, issued, sliceVars>>

\* A goroutine calls GetSpread.  seen collects, for the property about it,
\* the spread of every book that exists between the call and the return:
\* the book as the last completed write left it, and the book each write
\* that completes before the return leaves (see Unlock).
CallGetSpread(p) ==
    /\ pc[p] = "idle"
    /\ call' = [call EXCEPT ![p] =
                  [Idle EXCEPT !.op = "GetSpread",
                               !.seen = {GetSpread(committed.ob)}]]
    /\ pc' = [pc EXCEPT ![p] = "spread_bid_RLock"]
    /\ UNCHANGED <<ob, mem, last, mu, committed, issued, sliceVars>>

\* ob.mu.RLock() of the GetBestBid or the GetBestAsk that GetSpread calls
SpreadRLock(p) ==
    /\ pc[p] \in {"spread_bid_RLock", "spread_ask_RLock"}
    /\ CanRLock(mu)
    /\ mu' = [mu EXCEPT !.readers = @ + 1]
    /\ pc' = [pc EXCEPT ![p] = IF pc[p] = "spread_bid_RLock"
                               THEN "spread_bid" ELSE "spread_ask"]
    /\ UNCHANGED <<ob, mem, last, call, committed, issued, sliceVars>>

\* bid, hasBid := ob.GetBestBid(), its body
SpreadBid(p) ==
    /\ pc[p] = "spread_bid"
    /\ call' = [call EXCEPT ![p].obs = <<GetBestBid(ob)>>]
    /\ pc' = [pc EXCEPT ![p] = "spread_bid_RUnlock"]
    /\ UNCHANGED <<ob, mem, last, mu, committed, issued, sliceVars>>

\* ask, hasAsk := ob.GetBestAsk(), its body
SpreadAsk(p) ==
    /\ pc[p] = "spread_ask"
    /\ call' = [call EXCEPT ![p].obs = Append(@, GetBestAsk(ob))]
    /\ pc' = [pc EXCEPT ![p] = "spread_ask_RUnlock"]
    /\ UNCHANGED <<ob, mem, last, mu, committed, issued, sliceVars>>

\* a GetSpread that keeps the read lock of its first read while it
\* requests the lock for the second, and releases both at the end
SpreadRUnlock_nested(p) ==
    /\ pc[p] \in {"spread_bid_RUnlock", "spread_ask_RUnlock"}
    /\ mu' = IF pc[p] = "spread_bid_RUnlock" THEN mu
             ELSE [mu EXCEPT !.readers = @ - 2]
    /\ pc' = [pc EXCEPT ![p] = IF pc[p] = "spread_bid_RUnlock"
                               THEN "spread_ask_RLock" ELSE "spread_return"]
    /\ UNCHANGED <<ob, mem, last, call, committed, issued, sliceVars>>

\* the deferred ob.mu.RUnlock() of GetBestBid or GetBestAsk and its return
SpreadRUnlock(p) ==
    /\ pc[p] \in {"spread_bid_RUnlock", "spread_ask_RUnlock"}
    /\ mu' = [mu EXCEPT !.readers = @ - 1]
    /\ pc' = [pc EXCEPT ![p] = IF pc[p] = "spread_bid_RUnlock"
                               THEN "spread_ask_RLock" ELSE "spread_return"]
    /\ UNCHANGED <<ob, mem, last, call, committed, issued, sliceVars>>

\* what the GetSpread of goroutine p returns
SpreadReturned(p) == GetSpread_result(call[p].obs[1], call[p].obs[2])

\* the test of hasBid and hasAsk and the return of GetSpread
SpreadReturn(p) ==
    /\ pc[p] = "spread_return"
    /\ pc' = [pc EXCEPT ![p] = "idle"]
    /\ call' = [call EXCEPT ![p] = Idle]
    /\ UNCHANGED <<ob, mem, last, mu, committed, issued, sliceVars>>

ConcNext ==
    \E p \in Procs :
        \/ CallAddNewOrder(p)
        \/ CallAddHeldOrder(p)
        \/ CallRemoveOrder(p)
        \/ CallRead(p)
        \/ Lock(p)
        \/ LockWait(p)
        \/ AddSequence(p)
        \/ AddStamp(p)
        \/ AddIndex(p)
        \/ AddLevel(p)
        \/ RemoveLookup(p)
        \/ RemoveLevel(p)
        \/ Unlock(p)
        \/ Return(p)
        \/ RLock(p)
        \/ Read(p)
        \/ RUnlock(p)
        \/ CallGetSpread(p)
        \/ SpreadRLock(p)
        \/ SpreadBid(p)
        \/ SpreadAsk(p)
        \/ SpreadRUnlock(p)
        \/ SpreadReturn(p)

ConcSpec == Init /\ [][ConcNext]_vars

\* the steps of goroutine p inside a call that wait for nobody, and the
\* second part of Lock, which waits only for readers that are leaving
Proceed(p) ==
    \/ LockWait(p)
    \/ AddSequence(p)
    \/ AddStamp(p)
    \/ AddIndex(p)
    \/ AddLevel(p)
    \/ RemoveLookup(p)
    \/ RemoveLevel(p)
    \/ Unlock(p)
    \/ Return(p)
    \/ Read(p)
    \/ RUnlock(p)
    \/ SpreadBid(p)
    \/ SpreadAsk(p)
    \/ SpreadRUnlock(p)
    \/ SpreadReturn(p)

\* Fair scheduling: a goroutine that can take a step of its call takes it,
\* and a goroutine that requests the lock gets it if the lock is free again
\* and again (the runtime hands the mutex to a goroutine that has waited,
\* and lets the readers a writer held back in when the writer unlocks).
\* Nothing obliges a goroutine to make a call.
Fairness ==
    \A p \in Procs :
        /\ WF_vars(Proceed(p))
        /\ SF_vars(Lock(p))
        /\ SF_vars(RLock(p))
        /\ SF_vars(SpreadRLock(p))

\* The calls of the fair specification: every operation of the book, with
\* one ID and one depth, since what a call waits for does not depend on
\* its arguments.
FairCall(p) ==
    /\ \/ CallAddNewOrder(p)
       \/ CallRemoveOrder(p)
       \/ CallRead(p)
       \/ CallGetSpread(p)
    /\ call'[p].orderID \in {"", "a"}
    /\ call'[p].levels \in {0, 1}

FairNext ==
    \E p \in Procs :
        \/ FairCall(p)
        \/ Lock(p)
        \/ RLock(p)
        \/ SpreadRLock(p)
        \/ Proceed(p)

FairSpec == Init /\ [][FairNext]_vars /\ Fairness

----------------------------------------------------------------------------
(* The shared memory: a level's Orders is a slice, a window of a backing   *)
(* array; GetDepth copies PriceLevel structs, and with them the slice, not *)
(* the array nor the Orders it points to; GetOrder returns the *Order.     *)
(* The calls run to completion as in the sequential specification.         *)

\* the references of the backing arrays
Arrays == 1..MaxSeq

\* the reference a newly allocated backing array gets
NewArray(as) ==
    CHOOSE a \in Arrays \ DOMAIN as : \A b \in Arrays \ DOMAIN as : a <= b

\* the capacity append gives the new array of a slice that is full
GrowCap(cap) == IF cap = 0 THEN 1 ELSE 2 * cap

\* the level an order belongs to: <<side, price>>
LevelOf(m, order) == <<m[order].Side, m[order].Price>>

\* level.Orders = append(level.Orders, order) on the arrays: the order is
\* written behind the slice if the array has room, else into a new array
\* that gets the elements of the slice; a new level has an empty slice.
\* The result is the arrays and the slices afterwards.
AddOrder_append(book, m, as, sl, order) ==
    LET key == LevelOf(m, order)
        tree == getTree(book, key[1])
        found == TreeGetFound(tree, key[2])
        len == IF found THEN Len(tree[key[2]].Orders) ELSE 0
        old == IF found THEN as[sl[key]] ELSE <<>>
        a == NewArray(as)
        new == [i \in 1..GrowCap(Len(old)) |->
                   IF i <= len THEN old[i] ELSE IF i = len + 1 THEN order
                   ELSE Nil]
    IN  IF len < Len(old)
        THEN [arrays |-> [as EXCEPT ![sl[key]][len + 1] = order],
              slices |-> sl]
        ELSE [arrays |-> MapPut(as, a, new), slices |-> MapPut(sl, key, a)]

\* level.Orders = append(level.Orders[:i], level.Orders[i+1:]...) on the
\* arrays: the elements behind i move one place down inside the same
\* array and the last place of the old window keeps its element; the slice
\* of a level that is removed from the tree goes with it.
RemoveOrder_shift(book, m, as, sl, orderID) ==
    LET order == RemoveOrder_lookup(book, orderID)
        key == LevelOf(m, order)
        tree == getTree(book, key[1])
        orders == tree[key[2]].Orders
        i == FirstWithID(m, orders, orderID)
        arr == as[sl[key]]
        moved == [j \in 1..Len(arr) |->
                     IF j >= i /\ j < Len(orders) THEN arr[j + 1] ELSE arr[j]]
    IN  IF ~RemoveOrder_exists(book, orderID) THEN [arrays |-> as, slices |-> sl]
        ELSE IF ~TreeGetFound(tree, key[2]) THEN [arrays |-> as, slices |-> sl]
        ELSE IF i = 0 THEN [arrays |-> as, slices |-> sl]
        ELSE [arrays |-> [as EXCEPT ![sl[key]] = moved],
              slices |-> IF Len(orders) = 1 THEN MapDelete(sl, key) ELSE sl]

\* one side of GetDepth with the slices: bids = append(bids, *level) copies
\* Price, Volume and the slice of the level
GetDepthSide_shared(book, sl, side, levels) ==
    LET result == GetDepthSide(getTree(book, side), side, levels)
    IN  [i \in 1..Len(result) |->
            [Price |-> result[i].Price, Volume |-> result[i].Volume,
             Orders |-> [array |-> sl[<<side, result[i].Price>>],
                         len |-> Len(result[i].Orders)]]]

GetDepth_shared(book, sl, levels) ==
    <<GetDepthSide_shared(book, sl, Buy, levels),
      GetDepthSide_shared(book, sl, Sell, levels)>>

\* what the caller reads in a GetDepth result: the levels with, for their
\* order queues, the fields of the Orders the slices show
ViewOf(depth, m, as) ==
    [s \in 1..Len(depth) |->
        [i \in 1..Len(depth[s]) |->
            [Price |-> depth[s][i].Price, Volume |-> depth[s][i].Volume,
             Orders |-> [j \in 1..depth[s][i].Orders.len |->
                            m[as[depth[s][i].Orders.array][j]]]]]]

\* the levels of a GetDepth result
DepthLevels(depth) ==
    UNION {{depth[s][i] : i \in 1..Len(depth[s])} : s \in 1..Len(depth)}

\* the backing arrays the caller still points to
CallerArrays(c) == {l.Orders.array : l \in DepthLevels(c.depth)}

\* the Orders the caller still points to
CallerRefs(c, as) ==
    UNION {{as[l.Orders.array][j] : j \in 1..l.Orders.len} :
              l \in DepthLevels(c.depth)}
        \cup ({c.order} \ {Nil})

\* the arrays and the Orders that somebody still points to; the others are
\* garbage
KeepArrays(as, sl, c) ==
    [a \in (DOMAIN as) \cap ({sl[k] : k \in DOMAIN sl} \cup CallerArrays(c))
        |-> as[a]]

KeepOrders(book, m, as, c) ==
    [r \in (DOMAIN m) \cap (Reachable(book) \cup CallerRefs(c, as)) |-> m[r]]

\* AddOrder(order), called with memory m
SliceAddOrder(order, m) ==
    LET heap == AddOrder_append(ob, m, arrays, slices, order) IN
    /\ ob.sequence < MaxSeq
    /\ ob' = AddOrder_book(ob, m, order)
    /\ slices' = heap.slices
    /\ arrays' = KeepArrays(heap.arrays, heap.slices, caller)
    /\ mem' = AddOrder_mem(ob, m, order)
    /\ last' = Call("AddOrder", m[order].ID, order, m[order], "none")
    /\ UNCHANGED <<concVars, caller>>

\* the orders the caller constructs: orders that nothing has filled
SliceOrders == {o \in NewOrders : o.FilledQty = 0}

\* the caller constructs an Order with an ID that is not in the book and
\* adds it
SliceAddNewOrder ==
    /\ Refs \ DOMAIN mem # {}
    /\ \E o \in {x \in SliceOrders : x.ID \notin DOMAIN ob.OrderMap} :
          LET r == NewRef(mem)
          IN  SliceAddOrder(r, [x \in (DOMAIN mem) \cup {r} |->
                                   IF x = r THEN o ELSE mem[x]])

SliceRemoveOrder(orderID) ==
    LET heap == RemoveOrder_shift(ob, mem, arrays, slices, orderID) IN
    /\ ob' = RemoveOrder_book(ob, mem, orderID)
    /\ slices' = heap.slices
    /\ arrays' = KeepArrays(heap.arrays, heap.slices, caller)
    /\ mem' = KeepOrders(ob', mem, arrays', caller)
    /\ last' = LET order == RemoveOrder_lookup(ob, orderID)
                IN  Call("RemoveOrder", orderID, order,
                         IF order = Nil THEN NoOrder ELSE mem[order], "none")
    /\ UNCHANGED <<concVars, caller>>

\* GetDepth(levels) returns; what the caller held before is dropped
SliceGetDepth(levels) ==
    LET depth == GetDepth_shared(ob, slices, levels)
        c == [caller EXCEPT !.depth = depth,
                            !.returned = ViewOf(depth, mem, arrays)]
    IN  /\ caller' = c
        /\ arrays' = KeepArrays(arrays, slices, c)
        /\ mem' = KeepOrders(ob, mem, arrays', c)
        /\ last' = Call("GetDepth", "", Nil, NoOrder, "none")
        /\ UNCHANGED <<ob, slices, concVars>>

\* GetOrder(orderID) returns the *Order of the index; copy is what the
\* caller would hold if it had been given the Order by value
SliceGetOrder(orderID) ==
    LET got == GetOrder(ob, orderID)
        c == [caller EXCEPT !.order = got[1],
                            !.copy = IF got[2] THEN <<mem[got[1]]>>
                                     ELSE <<>>]
    IN  /\ caller' = c
        /\ mem' = KeepOrders(ob, mem, arrays, c)
        /\ last' = Call("GetOrder", orderID, got[1],
                        IF got[2] THEN mem[got[1]] ELSE NoOrder, "none")
        /\ UNCHANGED <<ob, arrays, slices, concVars>>

\* the caller assigns to the Quantity field of the order GetOrder returned
CallerWrite(qty) ==
    /\ caller.order # Nil
    /\ qty # mem[caller.order].Quantity
    /\ mem' = [mem EXCEPT ![caller.order].Quantity = qty]
    /\ caller' = [caller EXCEPT !.copy = <<[@[1] EXCEPT !.Quantity = qty]>>]
    /\ last' = Call("Write", mem[caller.order].ID, caller.order,
                    mem[caller.order], "none")
    /\ UNCHANGED <<ob, arrays, slices, concVars>>

SliceNext ==
    \/ SliceAddNewOrder
    \/ \E orderID \in IDs : SliceRemoveOrder(orderID)
    \/ \E levels \in 1..MaxPrice : SliceGetDepth(levels)
    \/ \E orderID \in IDs : SliceGetOrder(orderID)
    \/ \E qty \in Qtys : CallerWrite(qty)

SliceSpec == Init /\ [][SliceNext]_vars

----------------------------------------------------------------------------
(* Vocabulary of the properties *)

\* the places of the book where an order rests: <<side, price, position>>
Slots(book) ==
    {<<side, price, i>> \in OrderSide \X Prices \X (1..(2 * MaxSeq)) :
        /\ price \in DOMAIN getTree(book, side)
        /\ i <= Len(getTree(book, side)[price].Orders)}

\* the reference resting at a slot
At(book, slot) == getTree(book, slot[1])[slot[2]].Orders[slot[3]]

\* the levels of the book: <<side, price>>
LevelKeys(book) ==
    {<<side, price>> \in OrderSide \X Prices :
        price \in DOMAIN getTree(book, side)}

LevelAt(book, key) == getTree(book, key[1])[key[2]]

Residual(o) == o.Quantity - o.FilledQty

RECURSIVE SumResiduals(_, _)
SumResiduals(m, orders) ==
    IF orders = <<>> THEN 0
    ELSE Residual(m[Head(orders)]) + SumResiduals(m, Tail(orders))

\* the book does not rest crossed
Uncrossed(book) ==
    (GetBestBid(book)[2] /\ GetBestAsk(book)[2])
        => GetBestBid(book)[1] < GetBestAsk(book)[1]

\* an order that would match against the resting opposite side
Crosses(book, o) ==
    IF o.Side = Buy
    THEN GetBestAsk(book)[2] /\ o.Price >= GetBestAsk(book)[1]
    ELSE GetBestBid(book)[2] /\ o.Price <= GetBestBid(book)[1]

----------------------------------------------------------------------------
(* Properties *)

\* C1: AddOrder of an order whose ID is in the index fails with DuplicateOrder
\* and leaves the trees, the levels, the index and the sequence counter as
\* they were.
C1_DuplicateRejected ==
    [][(last'.op = "AddOrder" /\ last'.orderID \in DOMAIN ob.OrderMap)
          => (ob' = ob /\ last'.err = "DuplicateOrder")]_vars

\* C2: the Volume of every price level is the sum of Quantity - FilledQty over
\* the orders of the level.
C2_VolumeIsSumOfResiduals ==
    \A key \in LevelKeys(ob) :
        LevelAt(ob, key).Volume = SumResiduals(mem, LevelAt(ob, key).Orders)

\* C3: after every completed call, if both sides have a level then the best
\* bid is strictly below the best ask.
C3_NeverCrossed == Uncrossed(ob)

\* C3 as amended: a book that is not crossed is not crossed after a
\* RemoveOrder, nor after an AddOrder of an order that does not cross the
\* opposite side (a buy strictly below the best ask, a sell strictly above the
\* best bid, or an empty opposite side).
C3_UncrossedPreserved ==
    [][(/\ Uncrossed(ob)
        /\ (last'.op = "AddOrder" => ~Crosses(ob, last'.fields)))
          => Uncrossed(ob')]_vars

\* C3 witness: an order was added opposite a resting side without crossing it
C3_Witness ==
    /\ last.op = "AddOrder"
    /\ GetBestBid(ob)[2] /\ GetBestAsk(ob)[2]
    /\ GetBestBid(ob)[1] < GetBestAsk(ob)[1]

\* C4: no order ID rests in the book more than once.
C4_NoDuplicateID ==
    \A s1, s2 \in Slots(ob) :
        mem[At(ob, s1)].ID = mem[At(ob, s2)].ID => s1 = s2

\* C5: within every level the orders are queued in strictly increasing
\* SequenceNum from head to tail.
C5_LevelInSequenceOrder ==
    \A key \in LevelKeys(ob) :
        LET orders == LevelAt(ob, key).Orders
        IN  \A i, j \in 1..Len(orders) :
                i < j => mem[orders[i]].SequenceNum < mem[orders[j]].SequenceNum

\* C6: every order of the index is in the level keyed by its Price in the
\* tree of its Side.
C6_IndexedOrderInLevel ==
    \A id \in DOMAIN ob.OrderMap :
        LET order == ob.OrderMap[id]
            tree == getTree(ob, mem[order].Side)
        IN  /\ TreeGetFound(tree, mem[order].Price)
            /\ \E i \in 1..Len(tree[mem[order].Price].Orders) :
                    tree[mem[order].Price].Orders[i] = order

\* C6 witness: an order is indexed after another one was removed
C6_Witness ==
    /\ last.op = "RemoveOrder"
    /\ last.order # Nil
    /\ DOMAIN ob.OrderMap # {}

\* C7: every order resting in a level is what GetOrder returns for its ID,
\* and rests on one side at one price only.
C7_RestingOrderResolvable ==
    \A s1 \in Slots(ob) :
        /\ GetOrder(ob, mem[At(ob, s1)].ID) = <<At(ob, s1), TRUE>>
        /\ \A s2 \in Slots(ob) : At(ob, s2) = At(ob, s1) => s2 = s1

\* C8: no level of BuyTree or SellTree has an empty order queue.
C8_NoEmptyLevel ==
    \A key \in LevelKeys(ob) : Len(LevelAt(ob, key).Orders) > 0

\* C8 witness: RemoveOrder took the last order of a level, and the level is gone
C8_Witness ==
    /\ last.op = "RemoveOrder"
    /\ last.order # Nil
    /\ ~TreeGetFound(getTree(ob, last.fields.Side), last.fields.Price)

\* the goroutines inside the critical section of AddOrder or RemoveOrder
WritersInside ==
    {p \in Procs : pc[p] \in {"add_sequence", "add_stamp", "add_index",
                              "add_level", "rem_lookup", "rem_level",
                              "Unlock"}}

\* the goroutines inside a read operation
ReadersInside ==
    {p \in Procs : pc[p] \in {"read", "RUnlock", "spread_bid", "spread_ask",
                              "spread_bid_RUnlock", "spread_ask_RUnlock"}}

\* C9: the sequence numbers given to orders are 1, 2, 3, ... in the order in
\* which they are given (distinct, increasing, without gap), the counter is
\* never behind them, and no two Order objects carry the same one.
C9_SequenceGapFree ==
    /\ \A k \in 1..Len(issued) : issued[k] = k
    /\ ob.sequence \in {Len(issued), Len(issued) + 1}
    /\ \A r1, r2 \in DOMAIN mem :
          (r1 # r2 /\ mem[r1].SequenceNum > 0)
              => mem[r1].SequenceNum # mem[r2].SequenceNum

\* C9 witness: an AddOrder has its sequence number while a second AddOrder,
\* called concurrently, waits for the lock
C9_Witness ==
    \E p, q \in Procs :
        /\ pc[p] = "add_index"
        /\ pc[q] = "Lock" /\ call[q].op = "AddOrder"
        /\ Len(issued) >= 1

\* C10: at most one AddOrder or RemoveOrder is inside its critical section,
\* no read operation is inside while a writer is, the book a read operation
\* reads is the book as the last completed write left it, and what the read
\* operation returns is its result on that book.
C10_ReadsNotTorn ==
    /\ Cardinality(WritersInside) <= 1
    /\ ReadersInside # {} => WritersInside = {}
    /\ \A p \in ReadersInside :
          /\ ob = committed.ob
          /\ Collect(ob, mem) = committed.mem
    /\ \A p \in Procs :
          pc[p] = "RUnlock" => call[p].obs = ReadResult(call[p], committed.ob)

\* C10 witness: a read operation has read a book that holds an order while a
\* writer waits for the lock
C10_Witness ==
    \E p, q \in Procs :
        /\ pc[p] = "RUnlock"
        /\ pc[q] = "Lock"
        /\ DOMAIN ob.OrderMap # {}

----------------------------------------------------------------------------
(* Properties of the read operations and of RemoveOrder *)

\* C14: when RemoveOrder(X) has returned an order, no order with ID X rests
\* in a level, GetOrder(X) finds nothing, and a RemoveOrder(X) that follows
\* returns none and leaves the book as it is.
C14_CancelIdempotent ==
    (last.op = "RemoveOrder" /\ last.order # Nil) =>
        /\ \A s \in Slots(ob) : mem[At(ob, s)].ID # last.orderID
        /\ GetOrder(ob, last.orderID) = <<Nil, FALSE>>
        /\ RemoveOrder_lookup(ob, last.orderID) = Nil
        /\ RemoveOrder_book(ob, mem, last.orderID) = ob

\* C15: RemoveOrder with an ID that is not in the index returns none, reports
\* no error and leaves the trees, the levels, the index and the sequence
\* counter as they were.
C15_RemoveUnknownChangesNothing ==
    [][(last'.op = "RemoveOrder" /\ last'.orderID \notin DOMAIN ob.OrderMap)
          => (ob' = ob /\ last'.order = Nil /\ last'.err = "none")]_vars

\* C15 witness: RemoveOrder was called with an unknown ID on a book that
\* holds orders
C15_Witness ==
    /\ last.op = "RemoveOrder"
    /\ last.order = Nil
    /\ DOMAIN ob.OrderMap # {}

\* the largest and the smallest element of a non-empty set of prices
MaxOf(S) == CHOOSE x \in S : \A y \in S : y <= x
MinOf(S) == CHOOSE x \in S : \A y \in S : x <= y

\* C16: GetBestBid returns the highest price of the buy levels, GetBestAsk
\* the lowest price of the sell levels, and each reports not-found exactly
\* when its side has no level.
C16_BestPrices ==
    /\ GetBestBid(ob) = IF DOMAIN ob.BuyTree = {} THEN <<0, FALSE>>
                        ELSE <<MaxOf(DOMAIN ob.BuyTree), TRUE>>
    /\ GetBestAsk(ob) = IF DOMAIN ob.SellTree = {} THEN <<0, FALSE>>
                        ELSE <<MinOf(DOMAIN ob.SellTree), TRUE>>

\* C16 witness: a side has two levels, so that the best price is a choice
C16_Witness ==
    \/ Cardinality(DOMAIN ob.BuyTree) >= 2
    \/ Cardinality(DOMAIN ob.SellTree) >= 2

\* the levels GetDepth is asked for
DepthArgs == 0..(MaxPrice + 1)

\* one side of a GetDepth result is the `levels` best levels of the tree:
\* as many as asked for or all there are, best price first, every next one
\* strictly worse, none of the levels left out better than one returned, and
\* each with the Volume of its level
BestLevels(result, tree, side, levels) ==
    /\ Len(result) = IF TreeSize(tree) < levels THEN TreeSize(tree) ELSE levels
    /\ \A i \in 1..Len(result) :
          /\ result[i].Price \in DOMAIN tree
          /\ result[i].Volume = tree[result[i].Price].Volume
    /\ \A i, j \in 1..Len(result) :
          i < j => IF side = Buy THEN result[i].Price > result[j].Price
                   ELSE result[i].Price < result[j].Price
    /\ \A i \in 1..Len(result) :
          \A p \in (DOMAIN tree) \ {result[j].Price : j \in 1..Len(result)} :
              IF side = Buy THEN p < result[i].Price ELSE p > result[i].Price

\* C17: for every n >= 0, GetDepth(n) returns on each side the
\* min(n, number of levels) best levels, bids in strictly descending and asks
\* in strictly ascending price, each with its level's volume.
C17_DepthIsBestLevels ==
    \A levels \in DepthArgs :
        /\ BestLevels(GetDepth(ob, levels)[1], ob.BuyTree, Buy, levels)
        /\ BestLevels(GetDepth(ob, levels)[2], ob.SellTree, Sell, levels)

\* C17 witness: a side has more levels than GetDepth(1) returns
C17_Witness ==
    \/ Cardinality(DOMAIN ob.BuyTree) >= 2 /\ Len(GetDepth(ob, 1)[1]) = 1
    \/ Cardinality(DOMAIN ob.SellTree) >= 2 /\ Len(GetDepth(ob, 1)[2]) = 1

\* C20: GetSpread returns ask - bid when both sides have a level, and what
\* it returns when a side has none (0) is a value it never returns as a
\* spread.
C20_SpreadUndefinedIsTold ==
    (GetBestBid(ob)[2] /\ GetBestAsk(ob)[2]) =>
        /\ GetSpread(ob) = GetBestAsk(ob)[1] - GetBestBid(ob)[1]
        /\ GetSpread(ob) # GetSpread(NewOrderBook)

----------------------------------------------------------------------------
(* Properties of what AddOrder accepts and of recovery *)

\* C18: every order resting in a level is a LIMIT order with a price above 0
\* and a residual above 0, whatever Order AddOrder was called with.
C18_RestingOrdersValid ==
    \A s \in Slots(ob) :
        /\ mem[At(ob, s)].Type = Limit
        /\ mem[At(ob, s)].Price > 0
        /\ Residual(mem[At(ob, s)]) > 0

\* C19: an order loaded during recovery keeps the sequence number it was
\* stored with, and the first order admitted after the load gets a sequence
\* number above that of the last order loaded, which is the highest stored.
C19_RecoveryKeepsSequence ==
    [][/\ last'.op = "LoadOrder" =>
            mem'[last'.order].SequenceNum = last'.fields.SequenceNum
       /\ (last.op = "LoadOrder" /\ last'.op = "AddOrder") =>
            mem'[last'.order].SequenceNum > last.fields.SequenceNum]_vars

----------------------------------------------------------------------------
(* Properties of GetSpread under concurrent writers *)

\* C11: what GetSpread returns is the spread of one book that existed
\* between its call and its return.
C11_SpreadOfOneBook ==
    \A p \in Procs :
        pc[p] = "spread_return" => SpreadReturned(p) \in call[p].seen

----------------------------------------------------------------------------
(* Properties of what GetDepth and GetOrder hand out *)

\* the slice of every level is a window of its backing array: the array
\* holds the level's orders in its first places
SlicesAreWindows ==
    /\ DOMAIN slices = LevelKeys(ob)
    /\ \A key \in LevelKeys(ob) :
          LET orders == LevelAt(ob, key).Orders
          IN  /\ Len(orders) <= Len(arrays[slices[key]])
              /\ orders = SubSeq(arrays[slices[key]], 1, Len(orders))

\* C12: an AddOrder or a RemoveOrder that runs after GetDepth has returned
\* leaves what the caller reads in the returned levels as it was: prices,
\* volumes, order queues and order fields.
C12_DepthIsSnapshot ==
    [][(last'.op \in {"AddOrder", "RemoveOrder"})
          => ViewOf(caller.depth, mem', arrays')
                = ViewOf(caller.depth, mem, arrays)]_vars

\* C13: a write of the caller to the order GetOrder returned changes no
\* Order the book points to, and the returned order reads as the caller's
\* own copy would, whatever the book does afterwards.
C13_OrderIsCopy ==
    [][/\ last'.op = "Write" =>
            \A r \in Reachable(ob) : mem'[r] = mem[r]
       /\ caller'.order # Nil => <<mem'[caller'.order]>> = caller'.copy]_vars

----------------------------------------------------------------------------
(* Properties of waiting and of progress *)

\* C21: a GetBestBid, GetBestAsk, GetDepth, GetOrder or Size call never
\* waits: whenever it stands before its first statement, that statement can
\* be executed, also while an AddOrder or a RemoveOrder is inside its
\* critical section.
C21_ReadsNeverWait ==
    \A p \in Procs : pc[p] = "RLock" => ENABLED RLock(p)

----------------------------------------------------------------------------
(* Frames of RemoveOrder and AddOrder *)

\* the levels other than `key` are the same in both books
OtherLevelsSame(book1, book2, key) ==
    /\ LevelKeys(book1) \ {key} = LevelKeys(book2) \ {key}
    /\ \A k \in LevelKeys(book1) \ {key} : LevelAt(book1, k) = LevelAt(book2, k)

\* the positions of reference r in a sequence of references
PositionsOf(orders, r) == {i \in 1..Len(orders) : orders[i] = r}

\* book2 is book1 with order r, of fields o, taken out of its level: the
\* level has lost r and nothing else, its Volume is lower by the residual
\* of r, and it is gone if r was its only order
TakenOut(book1, book2, r, o) ==
    LET key == <<o.Side, o.Price>> IN
    /\ key \in LevelKeys(book1)
    /\ \E i \in PositionsOf(LevelAt(book1, key).Orders, r) :
          LET left == RemoveAt(LevelAt(book1, key).Orders, i)
          IN  IF left = <<>> THEN key \notin LevelKeys(book2)
              ELSE /\ key \in LevelKeys(book2)
                   /\ LevelAt(book2, key).Orders = left
                   /\ LevelAt(book2, key).Volume
                         = LevelAt(book1, key).Volume - Residual(o)
    /\ OtherLevelsSame(book1, book2, key)

\* C22: a RemoveOrder(X) that finds X in the index takes the order it
\* returns, and no other, out of that order's level, lowers the level's
\* Volume by that order's residual, takes only X out of the index and
\* leaves every other level and the sequence counter as they were.
C22_RemoveOrderFrame ==
    [][(last'.op = "RemoveOrder" /\ last'.order # Nil) =>
          /\ TakenOut(ob, ob', last'.order, last'.fields)
          /\ ob'.OrderMap = MapDelete(ob.OrderMap, last'.orderID)
          /\ ob'.sequence = ob.sequence]_vars

\* book2 is book1 with order r, of fields o, put into its level: the level
\* has r behind the orders it had, or r alone if it is new, and its Volume
\* is higher by the residual of r
PutIn(book1, book2, r, o) ==
    LET key == <<o.Side, o.Price>>
        had == IF key \in LevelKeys(book1) THEN LevelAt(book1, key)
               ELSE PriceLevel(o.Price, <<>>, 0)
    IN  /\ key \in LevelKeys(book2)
        /\ LevelAt(book2, key).Price = o.Price
        /\ LevelAt(book2, key).Orders = Append(had.Orders, r)
        /\ LevelAt(book2, key).Volume = had.Volume + Residual(o)
        /\ OtherLevelsSame(book1, book2, key)

\* C23: an AddOrder of an order whose ID is not in the index appends the
\* order to the level of its side and price, which is created if absent,
\* raises the level's Volume by the order's residual, puts the ID into the
\* index, advances the sequence counter by one and leaves every other
\* level and index entry as they were.
C23_AddOrderFrame ==
    [][(last'.op = "AddOrder" /\ last'.orderID \notin DOMAIN ob.OrderMap) =>
          /\ PutIn(ob, ob', last'.order, last'.fields)
          /\ ob'.OrderMap = MapPut(ob.OrderMap, last'.orderID, last'.order)
          /\ ob'.sequence = ob.sequence + 1]_vars

\* goroutines p and q are both in a RemoveOrder call for the same ID, and
\* one of the calls was made while the other waited for the lock
SameCancel(p, q) ==
    /\ p # q
    /\ call[p].op = "RemoveOrder" /\ call[q].op = "RemoveOrder"
    /\ call[p].orderID = call[q].orderID
    /\ call[p].rival \/ call[q].rival

\* the RemoveOrder of goroutine p has done its lookup in the index
LookedUp(p) == pc[p] \in {"rem_level", "Unlock", "Return"}

\* the RemoveOrder of goroutine p has not yet got the lock
BeforeLock(p) == pc[p] \in {"Lock", "Lock_wait"}

\* the order that was in the book under the ID when p was called and when
\* q was called is the same one
SameTarget(p, q) ==
    call[p].resting # Nil /\ call[p].resting = call[q].resting

\* C24: two RemoveOrder(X) calls that run concurrently never both get an
\* order, and the subtraction from the level's Volume is made only by the
\* call that got it; if the same order X was in the book when each of them
\* was called, the call that has the lock first gets the order and, when
\* both return, exactly one returns it and the other none.
C24_ConcurrentCancel ==
    \A p, q \in Procs :
        SameCancel(p, q) =>
            /\ (LookedUp(p) /\ LookedUp(q))
                  => ~(call[p].order # Nil /\ call[q].order # Nil)
            /\ pc[p] = "rem_level" => call[p].order # Nil
            /\ (SameTarget(p, q) /\ LookedUp(p) /\ BeforeLock(q))
                  => call[p].order = call[p].resting
            /\ (SameTarget(p, q) /\ pc[p] = "Return" /\ pc[q] = "Return")
                  => (call[p].order # Nil) # (call[q].order # Nil)

\* C24 witness: two RemoveOrder(X) calls, made while the same order X was
\* in the book, are both about to return, one with X and one with none
C24_Witness ==
    \E p, q \in Procs :
        /\ SameCancel(p, q)
        /\ SameTarget(p, q)
        /\ pc[p] = "Return" /\ pc[q] = "Return"
        /\ call[p].order = call[p].resting /\ call[q].order = Nil

\* the goroutines that hold the read lock
HoldsRLock ==
    {p \in Procs : pc[p] \in {"read", "RUnlock", "spread_bid", "spread_ask",
                              "spread_bid_RUnlock", "spread_ask_RUnlock"}}

\* the goroutines between ob.mu.Lock() and the deferred ob.mu.Unlock()
HoldsLock ==
    {p \in Procs : pc[p] \in {"Lock_wait", "add_sequence", "add_stamp",
                              "add_index", "add_level", "rem_lookup",
                              "rem_level", "Unlock"}}

\* C25: under fair scheduling every call returns, and at all times the
\* lock is held by exactly the goroutines that are inside an operation: a
\* goroutine that is in no call, or requests the lock (GetSpread between
\* its two reads included), holds none.
C25_EveryCallReturns ==
    /\ [](mu.readers = Cardinality(HoldsRLock))
    /\ [](mu.writer <=> HoldsLock # {})
    /\ [](Cardinality(HoldsLock) <= 1)
    /\ \A p \in Procs : (pc[p] # "idle") ~> (pc[p] = "idle")

\* C25 witness: a GetSpread requests the read lock for its second read
\* while a writer, which holds new readers back, awaits the lock
C25_Witness ==
    \E p, q \in Procs :
        /\ pc[p] = "spread_ask_RLock"
        /\ pc[q] = "Lock_wait"

====
